---- MODULE Spec2Model ----
(***************************************************************************)
(* Model of src/src/hooks/useStyleRegister.tsx: the style-object compiler  *)
(* (injectSelectorHash, parseStyle), the registration hook                 *)
(* (useStyleRegister), the SSR extractor (extractStyle) and the token      *)
(* flattening (flattenToken).                                              *)
(*                                                                         *)
(* Text is modelled in two forms.  Strings the code inspects character by  *)
(* character (selector keys, property names, cache keys) are sequences of  *)
(* one-character strings; text the code only concatenates is a string.     *)
(* Str converts the first form to the second.                              *)
(***************************************************************************)
EXTENDS Integers, Sequences, FiniteSets, TLC

VARIABLES
  \* ---- injectSelectorHash harness
  iKey, iHashId, iPriority, iOut,
  \* ---- environment: the memoized result of supportLayer()
  canLayer,
  \* ---- parseStyle harness
  pStyle, pConfig, pWrapKey, pOut, pOutKeyed,
  \* ---- flattenToken harness
  tA, tB, tSalt, tOut,
  \* ---- environment of the registration hook
  isClientSide,           \* canUseDom() at module load
  production,             \* process.env.NODE_ENV === 'production'
  mock,                   \* StyleContext.mock
  \* ---- registration state
  cache,                  \* the Map of the global cache, in insertion order
  document,               \* the <style> elements of the document
  nextEl,                 \* identity of the next element created
  globalEffectStyleKeys,  \* the module-level Set of injected effect names
  updateCalls,            \* number of updateCSS calls per key
  styleFnCalls,           \* number of style function invocations
  lastOp                  \* the last operation and what it returned

NoResult == [t |-> "none"]

\* ------------------------------------------------------------------------
\* Bounds
\* ------------------------------------------------------------------------
MaxKeyLen == 4

\* ------------------------------------------------------------------------
\* Character helpers
\* ------------------------------------------------------------------------
RECURSIVE Str(_)
Str(cs) == IF cs = <<>> THEN "" ELSE cs[1] \o Str(Tail(cs))

Lower == <<"a","b","c","d","e","f","g","h","i","j","k","l","m",
           "n","o","p","q","r","s","t","u","v","w","x","y","z">>
Upper == <<"A","B","C","D","E","F","G","H","I","J","K","L","M",
           "N","O","P","Q","R","S","T","U","V","W","X","Y","Z">>
Digits == {"0","1","2","3","4","5","6","7","8","9"}

Range(f) == {f[i] : i \in DOMAIN f}

\* JavaScript \w : [A-Za-z0-9_]
IsWordChar(c) == c \in Range(Lower) \cup Range(Upper) \cup Digits \cup {"_"}

\* JavaScript \s (the members that occur in the modelled inputs)
IsSpace(c) == c \in {" ", "\t", "\n"}

\* String.prototype.toLowerCase on one character
ToLowerCase(c) ==
  IF c \in Range(Upper)
  THEN Lower[CHOOSE i \in DOMAIN Upper : Upper[i] = c]
  ELSE c

\* String.prototype.split(sep) for a one-character separator
RECURSIVE SplitAcc(_, _, _)
SplitAcc(cs, sep, cur) ==
  IF cs = <<>> THEN <<cur>>
  ELSE IF cs[1] = sep
       THEN <<cur>> \o SplitAcc(Tail(cs), sep, <<>>)
       ELSE SplitAcc(Tail(cs), sep, Append(cur, cs[1]))

Split(cs, sep) == SplitAcc(cs, sep, <<>>)

\* Array.prototype.join(sep), sep a character sequence
RECURSIVE Join(_, _)
Join(parts, sep) ==
  IF parts = <<>> THEN <<>>
  ELSE IF Len(parts) = 1 THEN parts[1]
  ELSE parts[1] \o sep \o Join(Tail(parts), sep)

\* String.prototype.trim
RECURSIVE TrimStart(_)
TrimStart(cs) ==
  IF cs # <<>> /\ IsSpace(cs[1]) THEN TrimStart(Tail(cs)) ELSE cs

RECURSIVE TrimEnd(_)
TrimEnd(cs) ==
  IF cs # <<>> /\ IsSpace(cs[Len(cs)])
  THEN TrimEnd(SubSeq(cs, 1, Len(cs) - 1))
  ELSE cs

Trim(cs) == TrimEnd(TrimStart(cs))

\* String.prototype.split(/\s+/): a maximal run of white space is one separator
RECURSIVE SplitSpacesAcc(_, _)
SplitSpacesAcc(cs, cur) ==
  IF cs = <<>> THEN <<cur>>
  ELSE IF IsSpace(cs[1])
       THEN <<cur>> \o SplitSpacesAcc(TrimStart(cs), <<>>)
       ELSE SplitSpacesAcc(Tail(cs), Append(cur, cs[1]))

SplitSpaces(cs) == SplitSpacesAcc(cs, <<>>)

\* firstPath.match(/^\w+/)?.[0] || ''
RECURSIVE MatchWordPrefix(_)
MatchWordPrefix(cs) ==
  IF cs # <<>> /\ IsWordChar(cs[1])
  THEN <<cs[1]>> \o MatchWordPrefix(Tail(cs))
  ELSE <<>>

\* String.prototype.startsWith
StartsWith(cs, prefix) ==
  /\ Len(cs) >= Len(prefix)
  /\ SubSeq(cs, 1, Len(prefix)) = prefix

\* String.prototype.slice(n)
Slice(cs, n) == SubSeq(cs, n + 1, Len(cs))

\* ------------------------------------------------------------------------
\* injectSelectorHash
\* ------------------------------------------------------------------------
\* `:where(${hashClassName})` or hashClassName
hashSelector(hashId, hashPriority) ==
  IF hashPriority = "low"
  THEN <<":","w","h","e","r","e","(">> \o <<".">> \o hashId \o <<")">>
  ELSE <<".">> \o hashId

\* the callback of key.split(',').map
injectBranch(k, hashId, hashPriority) ==
  LET fullPath    == SplitSpaces(Trim(k))
      firstPath   == fullPath[1]
      htmlElement == MatchWordPrefix(firstPath)
      newFirst    == htmlElement \o hashSelector(hashId, hashPriority)
                       \o Slice(firstPath, Len(htmlElement))
  IN  Join(<<newFirst>> \o Tail(fullPath), <<" ">>)

\* mutation: the scope selector is always put at the very front
injectSelectorHash_front(key, hashId, hashPriority) ==
  IF hashId = <<>> THEN key
  ELSE LET branches == Split(key, ",")
       IN  Join([i \in DOMAIN branches |->
                   hashSelector(hashId, hashPriority) \o
                   Join(SplitSpaces(Trim(branches[i])), <<" ">>)],
                <<",">>)

injectSelectorHash(key, hashId, hashPriority) ==
  IF hashId = <<>> THEN key
  ELSE LET branches == Split(key, ",")
       IN  Join([i \in DOMAIN branches |->
                   injectBranch(branches[i], hashId, hashPriority)],
                <<",">>)

\* ------------------------------------------------------------------------
\* Style descriptions (CSSInterpolation)
\*   [t = "string"]    a raw string            [t = "number"]  a number
\*   [t = "boolean"]   true / false            [t = "null"]    null
\*   [t = "object"]    a CSSObject, kv the list of its <<key, value>> in
\*                     Object.keys order
\*   [t = "array"]     an ArrayCSSInterpolation
\*   [t = "keyframes"] a Keyframes instance (_keyframe is true)
\*   [t = "compound"]  { _skip_check_, value }
\* ------------------------------------------------------------------------
StrV(s) == [t |-> "string", s |-> s]
NumV(n) == [t |-> "number", n |-> n]
BoolV(b) == [t |-> "boolean", b |-> b]
NullV == [t |-> "null"]
Obj(kv) == [t |-> "object", kv |-> kv]
Arr(items) == [t |-> "array", items |-> items]
Keyframes(name, style) == [t |-> "keyframes", name |-> name, style |-> style]
Compound(skip, value) == [t |-> "compound", skip |-> skip, value |-> value]

SKIP_CHECK == <<"_","s","k","i","p","_","c","h","e","c","k","_">>
ANIMATION_NAME == <<"a","n","i","m","a","t","i","o","n","N","a","m","e">>

\* JavaScript truthiness of a value
Truthy(v) ==
  CASE v.t = "null" -> FALSE
    [] v.t = "boolean" -> v.b
    [] v.t = "number" -> v.n # 0
    [] v.t = "string" -> v.s # ""
    [] OTHER -> TRUE

\* typeof v === 'object' && v
IsObjectValue(v) == v.t \in {"object", "array", "keyframes", "compound"}

isCompoundCSSProperty(value) == value.t = "compound"

\* `${v}` of a value put into a template literal
ToText(v) ==
  CASE v.t = "string" -> v.s
    [] v.t = "number" -> ToString(v.n)
    [] v.t = "boolean" -> IF v.b THEN "true" ELSE "false"
    [] v.t = "null" -> "null"
    [] OTHER -> "[object Object]"

\* Object.keys / property access of a value used as a CSSObject
KeyValues(style) ==
  CASE style.t = "object" -> style.kv
    [] style.t = "compound" ->
         << <<SKIP_CHECK, BoolV(style.skip)>>, <<<<"v","a","l","u","e">>, style.value>> >>
    [] OTHER -> <<>>

\* the keys of @emotion/unitless that occur in the modelled inputs
unitless ==
  { <<"l","i","n","e","H","e","i","g","h","t">>, <<"z","I","n","d","e","x">>, <<"o","p","a","c","i","t","y">>, <<"f","l","e","x">>,
    <<"f","o","n","t","W","e","i","g","h","t">>, <<"W","e","b","k","i","t","L","i","n","e","C","l","a","m","p">> }

\* Keyframes.getName(hashId)
getName(keyframes, hashId) ==
  IF hashId # <<>> THEN Str(hashId) \o "-" \o keyframes.name
  ELSE keyframes.name

\* supportLayer(): the memoized result of the @layer probe
supportLayer == canLayer

\* key.replace(/[A-Z]/g, (match) => `-${match.toLowerCase()}`)
RECURSIVE styleNameOf(_)
styleNameOf(key) ==
  IF key = <<>> THEN <<>>
  ELSE IF key[1] \in Range(Upper)
       THEN <<"-", ToLowerCase(key[1])>> \o styleNameOf(Tail(key))
       ELSE <<key[1]>> \o styleNameOf(Tail(key))

\* ---- effectStyle: Record<string, string>, kept in key insertion order
HasEffect(effectStyle, name) ==
  \E i \in DOMAIN effectStyle : effectStyle[i].name = name

\* effectStyle[name] = css
SetEffect(effectStyle, name, css) ==
  IF HasEffect(effectStyle, name)
  THEN [i \in DOMAIN effectStyle |->
          IF effectStyle[i].name = name
          THEN [name |-> name, css |-> css] ELSE effectStyle[i]]
  ELSE Append(effectStyle, [name |-> name, css |-> css])

\* { ...effectStyle, ...childEffectStyle }
RECURSIVE MergeEffects(_, _)
MergeEffects(effectStyle, childEffectStyle) ==
  IF childEffectStyle = <<>> THEN effectStyle
  ELSE MergeEffects(
         SetEffect(effectStyle, childEffectStyle[1].name,
                   childEffectStyle[1].css),
         Tail(childEffectStyle))

\* flattenList
RECURSIVE flattenList(_)
flattenList(list) ==
  IF list = <<>> THEN <<>>
  ELSE LET item == list[1]
       IN  (IF item.t = "array" THEN flattenList(item.items)
            ELSE IF Truthy(item) THEN <<item>>
            ELSE <<>>) \o flattenList(Tail(list))

\* layer.split(','), the last cell trimmed
layerNameOf(layer) ==
  LET layerCells == Split(layer, ",")
  IN  Trim(layerCells[Len(layerCells)])

\* A parse result carries, besides [parsedStr, effectStyle], the list
\* `computed` of the @keyframes blocks that were built, each with the
\* parseStyle invocation (frame) that built it.  A frame is named by the
\* positions <<item, key, kind>> leading to it from the top-level call.
EmptyAcc == [str |-> "", effectStyle |-> <<>>, computed |-> <<>>,
             merged |-> <<>>]

RECURSIVE parseStyle(_, _, _, _)
RECURSIVE parseKeyframes(_, _, _, _, _)
RECURSIVE ParseKey(_, _, _, _, _, _)
RECURSIVE ParseKeys(_, _, _, _, _, _, _)
RECURSIVE ParseItems(_, _, _, _, _, _)

\* mutation: the block is built again on every reference
parseKeyframes_always(keyframes, acc, config, frame, pos) ==
  LET animationName == getName(keyframes, config.hashId)
      sub == parseStyle(keyframes.style, config,
                        [root |-> FALSE, injectHash |-> FALSE],
                        Append(frame, <<pos[1], pos[2], "keyframes">>))
  IN  [str |-> acc.str,
       effectStyle |-> SetEffect(acc.effectStyle, animationName,
                         "@keyframes " \o animationName \o sub.str),
       computed |-> acc.computed
                      \o <<[frame |-> frame, name |-> animationName]>>
                      \o sub.computed,
       merged |-> acc.merged \o sub.merged]

parseKeyframes(keyframes, acc, config, frame, pos) ==
  LET animationName == getName(keyframes, config.hashId)
  IN  IF HasEffect(acc.effectStyle, animationName) THEN acc
      ELSE LET sub == parseStyle(keyframes.style, config,
                        [root |-> FALSE, injectHash |-> FALSE],
                        Append(frame, <<pos[1], pos[2], "keyframes">>))
           IN  [str |-> acc.str,
                effectStyle |-> SetEffect(acc.effectStyle, animationName,
                                  "@keyframes " \o animationName \o sub.str),
                computed |-> acc.computed
                               \o <<[frame |-> frame, name |-> animationName]>>
                               \o sub.computed,
                merged |-> acc.merged \o sub.merged]

\* the literal-declaration branch: `${styleName}:${formatValue};`
\* mutation: px is appended to every number
Declaration_pxAlways(key, value) ==
  LET actualValue == IF value.t = "compound" /\ value.value.t # "null"
                     THEN value.value ELSE value
  IN  Str(styleNameOf(key)) \o ":" \o
      (IF actualValue.t = "number"
       THEN ToString(actualValue.n) \o "px" ELSE ToText(actualValue)) \o ";"

Declaration(key, value) ==
  LET actualValue == IF value.t = "compound" /\ value.value.t # "null"
                     THEN value.value ELSE value
      formatValue ==
        IF key \notin unitless /\ actualValue.t = "number"
             /\ actualValue.n # 0
        THEN ToString(actualValue.n) \o "px"
        ELSE ToText(actualValue)
  IN  Str(styleNameOf(key)) \o ":" \o formatValue \o ";"

\* mutation: an at-rule key does not pass the injection on to its children
ParseKey_noPropagate(kv, acc, config, info, frame, pos) ==
  LET key   == kv[1]
      value == kv[2]
  IN
  IF /\ IsObjectValue(value)
     /\ (key # ANIMATION_NAME \/ value.t # "keyframes")
     /\ ~isCompoundCSSProperty(value)
  THEN
    LET trimmed  == Trim(key)
        inject   == (info.root \/ info.injectHash) /\ config.hashId # <<>>
        collapse == /\ ~inject
                    /\ info.root
                    /\ config.hashId = <<>>
                    /\ (trimmed = <<"&">> \/ trimmed = <<>>)
        subInjectHash == FALSE
        mergedKey ==
          IF inject
          THEN IF StartsWith(trimmed, <<"@">>) THEN trimmed
               ELSE injectSelectorHash(key, config.hashId,
                                       config.hashPriority)
          ELSE IF collapse THEN <<>> ELSE trimmed
        nextRoot == collapse
        sub == parseStyle(value, config,
                          [root |-> nextRoot, injectHash |-> subInjectHash],
                          Append(frame, <<pos[1], pos[2], "rule">>))
    IN  [str |-> acc.str \o Str(mergedKey) \o sub.str,
         effectStyle |-> MergeEffects(acc.effectStyle, sub.effectStyle),
         computed |-> acc.computed \o sub.computed,
         merged |-> acc.merged
                      \o <<[node |-> Append(frame, <<pos[1], pos[2], "rule">>),
                            key |-> key, mergedKey |-> mergedKey]>>
                      \o sub.merged]
  ELSE
    IF key = ANIMATION_NAME /\ value.t = "keyframes"
    THEN LET acc1 == parseKeyframes(value, acc, config, frame, pos)
         IN  [acc1 EXCEPT !.str = @ \o Str(styleNameOf(key)) \o ":"
                                    \o getName(value, config.hashId) \o ";"]
    ELSE [acc EXCEPT !.str = @ \o Declaration(key, value)]

\* the body of Object.keys(style).forEach
ParseKey(kv, acc, config, info, frame, pos) ==
  LET key   == kv[1]
      value == kv[2]
  IN
  IF /\ IsObjectValue(value)
     /\ (key # ANIMATION_NAME \/ value.t # "keyframes")
     /\ ~isCompoundCSSProperty(value)
  THEN
    LET trimmed  == Trim(key)
        inject   == (info.root \/ info.injectHash) /\ config.hashId # <<>>
        collapse == /\ ~inject
                    /\ info.root
                    /\ config.hashId = <<>>
                    /\ (trimmed = <<"&">> \/ trimmed = <<>>)
        subInjectHash == inject /\ StartsWith(trimmed, <<"@">>)
        mergedKey ==
          IF inject
          THEN IF StartsWith(trimmed, <<"@">>) THEN trimmed
               ELSE injectSelectorHash(key, config.hashId,
                                       config.hashPriority)
          ELSE IF collapse THEN <<>> ELSE trimmed
        nextRoot == collapse
        sub == parseStyle(value, config,
                          [root |-> nextRoot, injectHash |-> subInjectHash],
                          Append(frame, <<pos[1], pos[2], "rule">>))
    IN  [str |-> acc.str \o Str(mergedKey) \o sub.str,
         effectStyle |-> MergeEffects(acc.effectStyle, sub.effectStyle),
         computed |-> acc.computed \o sub.computed,
         merged |-> acc.merged
                      \o <<[node |-> Append(frame, <<pos[1], pos[2], "rule">>),
                            key |-> key, mergedKey |-> mergedKey]>>
                      \o sub.merged]
  ELSE
    IF key = ANIMATION_NAME /\ value.t = "keyframes"
    THEN LET acc1 == parseKeyframes(value, acc, config, frame, pos)
         IN  [acc1 EXCEPT !.str = @ \o Str(styleNameOf(key)) \o ":"
                                    \o getName(value, config.hashId) \o ";"]
    ELSE [acc EXCEPT !.str = @ \o Declaration(key, value)]

ParseKeys(kvs, j, item, acc, config, info, frame) ==
  IF j > Len(kvs) THEN acc
  ELSE ParseKeys(kvs, j + 1, item,
                 ParseKey(kvs[j], acc, config, info, frame, <<item, j>>),
                 config, info, frame)

\* the body of flattenStyleList.forEach
ParseItems(list, i, acc, config, info, frame) ==
  IF i > Len(list) THEN acc
  ELSE
    LET originStyle == list[i]
        style == IF originStyle.t = "string" /\ ~info.root
                 THEN Obj(<<>>) ELSE originStyle
        acc1 ==
          IF style.t = "string"
          THEN [acc EXCEPT !.str = @ \o style.s \o "\n"]
          ELSE IF style.t = "keyframes"
          THEN parseKeyframes(style, acc, config, frame, <<i, 0>>)
          ELSE ParseKeys(KeyValues(style), 1, i, acc, config, info, frame)
    IN  ParseItems(list, i + 1, acc1, config, info, frame)

parseStyle(interpolation, config, info, frame) ==
  LET flattenStyleList ==
        flattenList(IF interpolation.t = "array"
                    THEN interpolation.items ELSE <<interpolation>>)
      body == ParseItems(flattenStyleList, 1, EmptyAcc, config, info, frame)
      layer == config.layer
      styleStr ==
        IF ~info.root THEN "{" \o body.str \o "}"
        ELSE IF layer # <<>> /\ supportLayer
        THEN LET inLayer == "@layer " \o Str(layerNameOf(layer)) \o " {"
                              \o body.str \o "}"
             IN  IF Len(Split(layer, ",")) > 1
                 THEN "@layer " \o Str(layer) \o "{%%%:%}" \o inLayer
                 ELSE inLayer
        ELSE body.str
  IN  [str |-> styleStr,
       effectStyle |-> body.effectStyle,
       computed |-> body.computed,
       merged |-> body.merged]

\* ------------------------------------------------------------------------

\* Harness for injectSelectorHash
\* ------------------------------------------------------------------------
SelectorAlphabet == {"d", ".", " ", ",", ":"}

RECURSIVE SeqsUpTo(_, _)
SeqsUpTo(S, n) ==
  IF n = 0 THEN {<<>>}
  ELSE LET shorter == SeqsUpTo(S, n - 1)
       IN  shorter \cup {Append(s, c) : s \in shorter, c \in S}

SampleSelectors ==
  { <<"d","i","v">>, <<".","f","o","o">>,
    <<"d","i","v",".","f","o","o"," ",".","b","a","r">>,
    <<"&",":","h","o","v","e","r">>,
    <<" ","a"," "," ","b",","," ",".","c","\t","d"," ">> }

HashIds == { <<>>, <<"a","b","c">> }
Priorities == { "low", "high" }

InjectIdle ==
  /\ iKey = <<>> /\ iHashId = <<>> /\ iPriority = "high" /\ iOut = NoResult

InitInject ==
  /\ iKey \in SeqsUpTo(SelectorAlphabet, MaxKeyLen) \cup SampleSelectors
  /\ iHashId \in HashIds
  /\ iPriority \in Priorities
  /\ iOut = NoResult

InjectSelectorHash ==
  /\ iOut = NoResult
  /\ iOut' = [t |-> "selector",
              s |-> injectSelectorHash(iKey, iHashId, iPriority)]
  /\ UNCHANGED <<iKey, iHashId, iPriority>>

\* ------------------------------------------------------------------------
\* Harness for parseStyle
\* ------------------------------------------------------------------------
DeclKeys ==
  { <<"c","o","l","o","r">>, <<"m","a","r","g","i","n">>, <<"l","i","n","e","H","e","i","g","h","t">>, <<"z","I","n","d","e","x">>,
    <<"m","a","r","g","i","n","T","o","p">>, <<"W","e","b","k","i","t","L","i","n","e","C","l","a","m","p">>, <<"l","i","n","e","-","h","e","i","g","h","t">> }

DeclValues ==
  { StrV("red"), NumV(4), NumV(0), NumV(-2), NullV,
    Compound(TRUE, NumV(4)), Compound(TRUE, StrV("red")),
    Compound(FALSE, NumV(0)) }

\* CSSObjects that hold literal declarations only
FlatStyles ==
  { Obj(<< <<k, v>> >>) : k \in DeclKeys, v \in DeclValues }
  \cup
  { Obj(<< <<<<"c","o","l","o","r">>, StrV("red")>>, <<k, v>> >>) :
      k \in {<<"m","a","r","g","i","n">>, <<"l","i","n","e","H","e","i","g","h","t">>}, v \in {NumV(4), NumV(0)} }

Red == Obj(<< <<<<"c","o","l","o","r">>, StrV("red")>> >>)

KFade ==
  Keyframes("fade",
    Obj(<< <<<<"f","r","o","m">>, Obj(<< <<<<"o","p","a","c","i","t","y">>, NumV(0)>> >>)>>,
           <<<<"t","o">>, Obj(<< <<<<"o","p","a","c","i","t","y">>, NumV(1)>> >>)>> >>))

KSpin ==
  Keyframes("spin", Obj(<< <<<<"t","o">>, Obj(<< <<<<"m","a","r","g","i","n">>, NumV(4)>> >>)>> >>))

\* a Keyframes whose own style refers to another Keyframes
KOuter ==
  Keyframes("outer",
    Obj(<< <<<<"t","o">>, Obj(<< <<ANIMATION_NAME, KFade>> >>)>> >>))

UseFade == Obj(<< <<ANIMATION_NAME, KFade>> >>)
UseSpin == Obj(<< <<ANIMATION_NAME, KSpin>> >>)

\* style descriptions that refer to Keyframes
KeyframeStyles ==
  { UseFade,
    KFade,
    Arr(<<KFade, KFade>>),
    Arr(<<KFade, UseFade>>),
    Arr(<<UseFade, KFade, UseSpin>>),
    Obj(<< <<ANIMATION_NAME, KFade>>, <<<<".","a">>, UseFade>> >>),
    Obj(<< <<<<".","a">>, UseFade>>, <<ANIMATION_NAME, KFade>> >>),
    Obj(<< <<<<".","a">>, UseFade>>, <<<<".","b">>, UseFade>> >>),
    Obj(<< <<<<".","a">>, UseFade>>, <<<<".","b">>, UseSpin>> >>),
    Obj(<< <<<<".","a">>, Obj(<< <<<<".","b">>, UseFade>> >>)>>,
           <<<<".","c">>, KFade>> >>),
    Obj(<< <<<<"@","m","e","d","i","a"," ","x">>, Obj(<< <<<<".","a">>, UseFade>> >>)>>,
           <<<<".","a">>, UseFade>> >>),
    Obj(<< <<ANIMATION_NAME, KOuter>> >>),
    Obj(<< <<ANIMATION_NAME, StrV("fade")>> >>) }

\* nested rules, at-rules, lists and raw strings
NestedStyles ==
  { Obj(<< <<<<".","a">>, Red>> >>),
    Obj(<< <<<<"d","i","v"," ",".","a",","," ",".","b">>, Red>>, <<<<"m","a","r","g","i","n">>, NumV(4)>> >>),
    Obj(<< <<<<"&">>, Red>> >>),
    Obj(<< <<<<>>, Obj(<< <<<<"a">>, Red>> >>)>> >>),
    Obj(<< <<<<" ","&"," ">>, Obj(<< <<<<"&">>, Red>> >>)>> >>),
    Obj(<< <<<<"@","m","e","d","i","a"," ","x">>, Obj(<< <<<<".","a">>, Red>> >>)>> >>),
    Obj(<< <<<<"@","m","e","d","i","a"," ","x">>,
             Obj(<< <<<<"@","s","u","p","p","o","r","t","s"," ","y">>, Obj(<< <<<<"a">>, Red>> >>)>> >>)>> >>),
    Obj(<< <<<<".","a">>, Obj(<< <<<<"&",":","h","o","v","e","r">>, Red>> >>)>> >>),
    Obj(<< <<<<" ","@","m","e","d","i","a"," ","x">>, Obj(<< <<<<".","a">>, Red>> >>)>> >>),
    Obj(<< <<<<"@","m","e","d","i","a"," ","x">>, KFade>> >>),
    Obj(<< <<<<"c","o","l","o","r">>, Arr(<<StrV("red"), StrV("blue")>>)>> >>),
    Obj(<<>>),
    StrV("raw{color:red;}"),
    NullV,
    NumV(0),
    Arr(<<>>),
    Arr(<<StrV("raw"), Red>>),
    Arr(<<NullV, Arr(<<Red, BoolV(FALSE), Arr(<<UseSpin>>)>>), StrV("")>>),
    Obj(<< <<<<".","a">>, StrV("raw")>>, <<<<".","b">>, Arr(<<StrV("raw"), Red>>)>> >>),
    Compound(TRUE, StrV("red")) }

Styles == FlatStyles \cup KeyframeStyles \cup NestedStyles

Layers == { <<>>, <<"a">>, <<"a",","," ","b">> }

Configs ==
  [hashId : HashIds, hashPriority : Priorities, layer : Layers]

WrapKeys == { <<"&">>, <<>> }

RootInfo == [root |-> TRUE, injectHash |-> FALSE]

ParseIdle ==
  /\ pStyle = NullV
  /\ pConfig = [hashId |-> <<>>, hashPriority |-> "high", layer |-> <<>>]
  /\ pWrapKey = <<>>
  /\ pOut = NoResult
  /\ pOutKeyed = NoResult

InitParse ==
  /\ pStyle \in Styles
  /\ pConfig \in Configs
  /\ pWrapKey \in WrapKeys
  /\ pOut = NoResult
  /\ pOutKeyed = NoResult

\* parseStyle(pStyle, pConfig)
Parse ==
  /\ pOut = NoResult
  /\ pOut' = parseStyle(pStyle, pConfig, RootInfo, <<>>)
  /\ UNCHANGED <<pStyle, pConfig, pWrapKey, pOutKeyed>>

\* parseStyle({ [pWrapKey]: pStyle }, pConfig)
ParseKeyed ==
  /\ pOutKeyed = NoResult
  /\ pOutKeyed' = parseStyle(Obj(<< <<pWrapKey, pStyle>> >>), pConfig,
                             RootInfo, <<>>)
  /\ UNCHANGED <<pStyle, pConfig, pWrapKey, pOut>>

parseVars == <<pStyle, pConfig, pWrapKey, pOut, pOutKeyed>>

\* ------------------------------------------------------------------------
\* flattenToken / token2key
\* ------------------------------------------------------------------------
\* @emotion/hash is an external digest: hash(s) is written as the term
\* "hash(s)", so two digests are equal exactly when their inputs are.
hash(s) == "hash(" \o s \o ")"

\* A token is an object; kv lists its <<key, value>> in Object.keys order,
\* keys and string values being plain strings.
RECURSIVE flattenToken(_)
flattenToken(token) ==
  IF token.kv = <<>> THEN ""
  ELSE LET key   == token.kv[1][1]
           value == token.kv[1][2]
       IN  key \o (IF value.t = "object" THEN flattenToken(value)
                   ELSE ToText(value))
               \o flattenToken(Obj(Tail(token.kv)))

\* the argument of hash in token2key
token2keyInput(token, slat) == slat \o "_" \o flattenToken(token)

token2key(token, slat) == hash(token2keyInput(token, slat))

\* ------------------------------------------------------------------------
\* Harness for flattenToken
\* ------------------------------------------------------------------------
TokenKeys == { "a", "ab", "b" }

TokenLeaves == { StrV("b"), StrV("bc"), StrV("c"), NumV(1), NullV }

TokenValues ==
  TokenLeaves \cup { Obj(<< <<"b", StrV("c")>> >>), Obj(<<>>) }

Tokens ==
  { Obj(<< <<k, v>> >>) : k \in TokenKeys, v \in TokenValues }
  \cup
  { Obj(<< <<"a", v>>, <<"b", w>> >>) :
      v \in {StrV("b"), NumV(1)}, w \in {StrV("c"), NumV(1)} }

Salts == { "", "s" }

TokenIdle ==
  /\ tA = Obj(<<>>) /\ tB = Obj(<<>>) /\ tSalt = "" /\ tOut = NoResult

InitToken ==
  /\ tA \in Tokens
  /\ tB \in Tokens
  /\ tSalt \in Salts
  /\ tOut = NoResult

\* token2key(tA, tSalt) and token2key(tB, tSalt)
Token2Key ==
  /\ tOut = NoResult
  /\ tOut' = [t |-> "keys",
              inputA |-> token2keyInput(tA, tSalt),
              inputB |-> token2keyInput(tB, tSalt),
              keyA |-> token2key(tA, tSalt),
              keyB |-> token2key(tB, tSalt)]
  /\ UNCHANGED <<tA, tB, tSalt>>

tokenVars == <<tA, tB, tSalt, tOut>>

\* ------------------------------------------------------------------------
\* Registration: useStyleRegister over the global cache and the document
\* ------------------------------------------------------------------------
\* attribute names of StyleContext
ATTR_TOKEN == "data-token"
ATTR_MARK == "data-css-hash"

\* normalizeStyle: the stylis pipeline is an external text transform, its
\* result (after the marker replace) is written as the term "stylis(s)"
normalizeStyle(styleStr) == "stylis(" \o styleStr \o ")"

\* path.join('%')
JoinPath(path) == Join(path, <<"%">>)

\* uniqueHash(path, styleStr)
uniqueHash(path, styleStr) == hash(Str(JoinPath(path)) \o styleStr)

\* fullPath = [tokenKey, ...path]
fullPathOf(info) == <<info.tokenKey>> \o info.path

\* the Map key of the global cache for a key path: keys.join('%')
CacheKey(prefix, keyPath) == JoinPath(<<prefix>> \o keyPath)

STYLE_PREFIX == <<"s","t","y","l","e">>
TOKEN_PREFIX == <<"t","o","k","e","n">>

\* StyleContext.hashPriority
hashPriority == "low"

\* isMergedClientSide
isMergedClientSide ==
  IF ~production /\ mock # "undefined" THEN mock = "client" ELSE isClientSide

\* ---- the document: a set of <style> elements; el is the element's identity,
\* ---- key the value of its mark attribute
HasStyle(doc, key) == \E e \in doc : e.key = key

\* updateCSS(css, key, option): update the element marked key or insert one
updateCSS(st, css, key) ==
  LET counted == [st EXCEPT !.updateCalls =
                    (key :> (IF key \in DOMAIN @ THEN @[key] + 1 ELSE 1)) @@ @]
  IN  IF HasStyle(st.document, key)
      THEN [counted EXCEPT !.document =
              {IF e.key = key THEN [e EXCEPT !.css = css] ELSE e : e \in @}]
      ELSE [counted EXCEPT
              !.document = @ \cup {[el |-> st.nextEl, key |-> key,
                                    css |-> css, token |-> ""]},
              !.nextEl = @ + 1]

\* style.setAttribute(ATTR_TOKEN, tokenKey) on the element updateCSS returned
setTokenAttribute(st, key, tokenKey) ==
  [st EXCEPT !.document =
     {IF e.key = key THEN [e EXCEPT !.token = tokenKey] ELSE e : e \in @}]

\* removeCSS(key, option)
removeCSS(doc, key) == {e \in doc : e.key # key}

EffectKey(effectKey) == "_effect-" \o effectKey

\* Object.keys(effectStyle).forEach: inject the effects not yet registered
RECURSIVE InjectEffects(_, _)
InjectEffects(st, effectStyle) ==
  IF effectStyle = <<>> THEN st
  ELSE LET effectKey == effectStyle[1].name
           st1 == IF effectKey \notin st.globalEffectStyleKeys
                  THEN updateCSS(
                         [st EXCEPT !.globalEffectStyleKeys =
                                      @ \cup {effectKey}],
                         normalizeStyle(effectStyle[1].css),
                         EffectKey(effectKey))
                  ELSE st
       IN  InjectEffects(st1, Tail(effectStyle))

\* mutation: the stylesheet is not inserted
InsertStyles_skip(st, styleStr, styleId, tokenKey, effectStyle) ==
  IF isMergedClientSide
  THEN InjectEffects(st, effectStyle)
  ELSE st

\* mutation: every effect is inserted, registered or not
InsertStyles_noRegistry(st, styleStr, styleId, tokenKey, effectStyle) ==
  IF isMergedClientSide
  THEN InjectEffects(
         [setTokenAttribute(updateCSS(st, styleStr, styleId),
                            styleId, tokenKey)
            EXCEPT !.globalEffectStyleKeys = {}],
         effectStyle)
  ELSE st

\* the client-side part of the cache factory
InsertStyles(st, styleStr, styleId, tokenKey, effectStyle) ==
  IF isMergedClientSide
  THEN InjectEffects(
         setTokenAttribute(updateCSS(st, styleStr, styleId),
                           styleId, tokenKey),
         effectStyle)
  ELSE st

\* the cache factory after parseStyle: normalize, hash and insert; value is
\* [styleStr, tokenKey, styleId]
cacheValue(st, info, parsed) ==
  LET styleStr == normalizeStyle(parsed.str)
      tokenKey == Str(info.tokenKey)
      styleId  == uniqueHash(fullPathOf(info), styleStr)
  IN  [st    |-> InsertStyles(st, styleStr, styleId, tokenKey,
                              parsed.effectStyle),
       value |-> <<styleStr, tokenKey, styleId>>,
       effectKeys |-> {parsed.effectStyle[i].name :
                         i \in DOMAIN parsed.effectStyle}]

\* the cache factory passed to useGlobalCache
cacheFn(st, info, styleObj) ==
  cacheValue(st, info,
             parseStyle(styleObj,
                        [hashId |-> info.hashId, hashPriority |-> hashPriority,
                         layer |-> info.layer],
                        RootInfo, <<>>))

\* mutation: the effects go with the stylesheet
onCacheRemove_withEffects(doc, value, fromHMR, autoClear) ==
  IF (fromHMR \/ autoClear) /\ isClientSide
  THEN {e \in removeCSS(doc, value[3]) : e.token # ""}
  ELSE doc

\* the disposer passed to useGlobalCache
onCacheRemove(doc, value, fromHMR, autoClear) ==
  IF (fromHMR \/ autoClear) /\ isClientSide
  THEN removeCSS(doc, value[3])
  ELSE doc

\* mutation: a style node is emitted whenever defaultCache is set
renderStyleNode_always(value, defaultCache) ==
  IF ~defaultCache
  THEN [t |-> "Empty"]
  ELSE [t |-> "style", token |-> value[2], mark |-> value[3],
        html |-> value[1]]

\* the styleNode of the render function useStyleRegister returns
renderStyleNode(value, defaultCache) ==
  IF isMergedClientSide \/ ~defaultCache
  THEN [t |-> "Empty"]
  ELSE [t |-> "style", token |-> value[2], mark |-> value[3],
        html |-> value[1]]

\* mutation: the token key and the style id change places
RECURSIVE extractStyle_swapped(_)
extractStyle_swapped(entries) ==
  LET styleKeys == SelectSeq(entries,
                     LAMBDA e : StartsWith(e.key, STYLE_PREFIX \o <<"%">>))
  IN  IF styleKeys = <<>> THEN ""
      ELSE "<style " \o ATTR_TOKEN \o "=\"" \o styleKeys[1].value[3] \o "\" "
             \o ATTR_MARK \o "=\"" \o styleKeys[1].value[2] \o "\">"
             \o styleKeys[1].value[1] \o "</style>"
             \o extractStyle_swapped(Tail(styleKeys))

\* extractStyle(cache): entries is cache.cache in Map order
RECURSIVE extractStyle(_)
extractStyle(entries) ==
  LET styleKeys == SelectSeq(entries,
                     LAMBDA e : StartsWith(e.key, STYLE_PREFIX \o <<"%">>))
  IN  IF styleKeys = <<>> THEN ""
      ELSE "<style " \o ATTR_TOKEN \o "=\"" \o styleKeys[1].value[2] \o "\" "
             \o ATTR_MARK \o "=\"" \o styleKeys[1].value[3] \o "\">"
             \o styleKeys[1].value[1] \o "</style>"
             \o extractStyle(Tail(styleKeys))

\* ---- the global cache (Cache / useGlobalCache): a Map from the joined key
\* ---- path to [times, value], kept in insertion order
Resident(entries, key) == \E i \in DOMAIN entries : entries[i].key = key

EntryOf(entries, key) ==
  entries[CHOOSE i \in DOMAIN entries : entries[i].key = key]

\* Map.set: an existing key keeps its position
CacheSet(entries, entry) ==
  IF Resident(entries, entry.key)
  THEN [i \in DOMAIN entries |->
          IF entries[i].key = entry.key THEN entry ELSE entries[i]]
  ELSE Append(entries, entry)

\* Map.delete
CacheDelete(entries, key) == SelectSeq(entries, LAMBDA e : e.key # key)

\* ------------------------------------------------------------------------
\* Registration state machine
\* ------------------------------------------------------------------------
MaxRefs == 2
MaxCompute == 2

\* the registrations of the model: token key, hash id, layer and path
Infos ==
  { [tokenKey |-> <<"t","1">>, hashId |-> <<"a","b","c">>, layer |-> <<>>,
     path |-> << <<"B","t","n">> >>],
    [tokenKey |-> <<"t","1">>, hashId |-> <<"a","b","c">>, layer |-> <<>>,
     path |-> << <<"C","a","r","d">> >>] }

\* what a style function may return
RegStyles == { Red, UseFade }

\* key paths of the other users of the cache
OtherKeyPaths == { <<<<"t","1">>>> }

StyleKey(info) == CacheKey(STYLE_PREFIX, fullPathOf(info))

St ==
  [document |-> document, nextEl |-> nextEl,
   globalEffectStyleKeys |-> globalEffectStyleKeys,
   updateCalls |-> updateCalls]

SetSt(st) ==
  /\ document' = st.document
  /\ nextEl' = st.nextEl
  /\ globalEffectStyleKeys' = st.globalEffectStyleKeys
  /\ updateCalls' = st.updateCalls

envVars == <<isClientSide, production, mock>>
docVars == <<document, nextEl, globalEffectStyleKeys, updateCalls>>
regVars == <<envVars, cache, docVars, styleFnCalls, lastOp>>

RegIdle ==
  /\ isClientSide = FALSE /\ production = FALSE /\ mock = "undefined"
  /\ cache = <<>> /\ document = {} /\ nextEl = 1
  /\ globalEffectStyleKeys = {} /\ updateCalls = [k \in {} |-> 0]
  /\ styleFnCalls = 0 /\ lastOp = [op |-> "init"]

InitReg ==
  /\ isClientSide \in BOOLEAN
  /\ production \in BOOLEAN
  /\ mock \in {"undefined", "client", "server"}
  /\ canLayer = FALSE
  /\ cache = <<>> /\ document = {} /\ nextEl = 1
  /\ globalEffectStyleKeys = {} /\ updateCalls = [k \in {} |-> 0]
  /\ styleFnCalls = 0 /\ lastOp = [op |-> "init"]

\* useStyleRegister(info, styleFn); styleObj is what styleFn returns if it is called.
\* updateCSS needs a document: in client mode without one the factory throws
\* and nothing is stored.
Register(info, styleObj) ==
  LET key == StyleKey(info)
  IN
  IF Resident(cache, key)
  THEN /\ EntryOf(cache, key).times < MaxRefs
       /\ cache' = CacheSet(cache, [EntryOf(cache, key) EXCEPT !.times = @ + 1])
       /\ lastOp' = [op |-> "register", info |-> info, hit |-> TRUE]
       /\ UNCHANGED <<envVars, canLayer, docVars, styleFnCalls>>
  ELSE /\ styleFnCalls < MaxCompute
       /\ isMergedClientSide => isClientSide
       /\ \E r \in {cacheFn(St, info, styleObj)} :
              /\ cache' = CacheSet(cache, [key |-> key, times |-> 1,
                                           value |-> r.value,
                                           effectKeys |-> r.effectKeys])
              /\ SetSt(r.st)
       /\ styleFnCalls' = styleFnCalls + 1
       /\ lastOp' = [op |-> "register", info |-> info, hit |-> FALSE]
       /\ UNCHANGED <<envVars, canLayer>>

\* the render function returned by the last useStyleRegister call, made
\* under a context with defaultCache
Render(defaultCache) ==
  /\ lastOp.op = "register"
  /\ lastOp' = [op |-> "render", info |-> lastOp.info,
                defaultCache |-> defaultCache,
                styleNode |-> renderStyleNode(
                                EntryOf(cache, StyleKey(lastOp.info)).value,
                                defaultCache)]
  /\ UNCHANGED <<envVars, canLayer, cache, docVars, styleFnCalls>>

\* a consumer of the scope goes away, under a context with autoClear
Release(info, autoClear) ==
  LET key   == StyleKey(info)
      entry == EntryOf(cache, key)
  IN  /\ Resident(cache, key)
      /\ IF entry.times = 1
         THEN /\ cache' = CacheDelete(cache, key)
              /\ document' = onCacheRemove(document, entry.value, FALSE,
                                           autoClear)
         ELSE /\ cache' = CacheSet(cache, [entry EXCEPT !.times = @ - 1])
              /\ document' = document
      /\ lastOp' = [op |-> "release", info |-> info, autoClear |-> autoClear,
                    evicted |-> (entry.times = 1)]
      /\ UNCHANGED <<envVars, canLayer, nextEl, globalEffectStyleKeys,
                     updateCalls, styleFnCalls>>

\* the regeneration signal changed: the entry is torn down and recreated
ForcedRefresh(info, styleObj) ==
  LET key   == StyleKey(info)
      entry == EntryOf(cache, key)
  IN  /\ Resident(cache, key)
      /\ styleFnCalls < MaxCompute
      /\ LET torn == [St EXCEPT !.document =
                        onCacheRemove(document, entry.value, TRUE, FALSE)]
         IN  \E r \in {cacheFn(torn, info, styleObj)} :
             /\ cache' = CacheSet(cache, [entry EXCEPT
                                            !.value = r.value,
                                            !.effectKeys = r.effectKeys])
             /\ SetSt(r.st)
      /\ styleFnCalls' = styleFnCalls + 1
      /\ lastOp' = [op |-> "refresh", info |-> info]
      /\ UNCHANGED <<envVars, canLayer>>

\* extractStyle(cache)
ExtractStyle ==
  /\ lastOp' = [op |-> "extract", result |-> extractStyle(cache)]
  /\ UNCHANGED <<envVars, canLayer, cache, docVars, styleFnCalls>>

\* another user of the cache (prefix 'token') stores an entry
AcquireOther(keyPath) ==
  LET key == CacheKey(TOKEN_PREFIX, keyPath)
  IN  /\ ~Resident(cache, key)
      /\ cache' = CacheSet(cache, [key |-> key, times |-> 1,
                                   value |-> <<"token">>,
                                   effectKeys |-> {}])
      /\ lastOp' = [op |-> "other"]
      /\ UNCHANGED <<envVars, canLayer, docVars, styleFnCalls>>

\* and drops it
ReleaseOther(keyPath) ==
  LET key == CacheKey(TOKEN_PREFIX, keyPath)
  IN  /\ Resident(cache, key)
      /\ cache' = CacheDelete(cache, key)
      /\ lastOp' = [op |-> "other"]
      /\ UNCHANGED <<envVars, canLayer, docVars, styleFnCalls>>

injectVars == <<iKey, iHashId, iPriority, iOut>>

vars == <<injectVars, canLayer, parseVars, tokenVars, regVars>>

\* ---- injectSelectorHash applied to bounded selectors
NextInject ==
  InjectSelectorHash /\ UNCHANGED <<canLayer, parseVars, tokenVars, regVars>>

InitSpecInject ==
  InitInject /\ canLayer = FALSE /\ ParseIdle /\ TokenIdle /\ RegIdle

SpecInject == InitSpecInject /\ [][NextInject]_vars

\* ---- parseStyle applied to bounded style descriptions
NextParse ==
  \/ Parse /\ UNCHANGED <<canLayer, injectVars, tokenVars, regVars>>
  \/ ParseKeyed /\ UNCHANGED <<canLayer, injectVars, tokenVars, regVars>>

InitSpecParse ==
  InitParse /\ canLayer \in BOOLEAN /\ InjectIdle /\ TokenIdle /\ RegIdle

SpecParse == InitSpecParse /\ [][NextParse]_vars

\* ---- token2key applied to pairs of bounded tokens
NextToken ==
  Token2Key /\ UNCHANGED <<canLayer, injectVars, parseVars, regVars>>

InitSpecToken ==
  InitToken /\ canLayer = FALSE /\ InjectIdle /\ ParseIdle /\ RegIdle

SpecToken == InitSpecToken /\ [][NextToken]_vars

\* ---- the registration hook, the cache and the document
Next ==
  \/ \E info \in Infos, styleObj \in RegStyles :
        Register(info, styleObj)
          /\ UNCHANGED <<injectVars, parseVars, tokenVars>>
  \/ \E defaultCache \in BOOLEAN :
        Render(defaultCache)
          /\ UNCHANGED <<injectVars, parseVars, tokenVars>>
  \/ \E info \in Infos, autoClear \in BOOLEAN :
        Release(info, autoClear)
          /\ UNCHANGED <<injectVars, parseVars, tokenVars>>
  \/ \E info \in Infos, styleObj \in RegStyles :
        ForcedRefresh(info, styleObj)
          /\ UNCHANGED <<injectVars, parseVars, tokenVars>>
  \/ ExtractStyle /\ UNCHANGED <<injectVars, parseVars, tokenVars>>
  \/ \E keyPath \in OtherKeyPaths :
        AcquireOther(keyPath)
          /\ UNCHANGED <<injectVars, parseVars, tokenVars>>
  \/ \E keyPath \in OtherKeyPaths :
        ReleaseOther(keyPath)
          /\ UNCHANGED <<injectVars, parseVars, tokenVars>>

Init ==
  InitReg /\ InjectIdle /\ ParseIdle /\ TokenIdle

Spec == Init /\ [][Next]_vars

\* ========================================================================
\* Properties
\* ========================================================================

\* ---- helpers used to state the expected selector, written over index
\* ---- sets of the input rather than by splitting it
NthSmallest(S, n) == CHOOSE x \in S : Cardinality({y \in S : y < x}) = n - 1

BranchCount(key) == Cardinality({i \in DOMAIN key : key[i] = ","}) + 1

BranchOf(key, n) ==
  LET commas == {i \in DOMAIN key : key[i] = ","}
      from   == IF n = 1 THEN 1 ELSE NthSmallest(commas, n - 1) + 1
      to     == IF n = Cardinality(commas) + 1 THEN Len(key)
                ELSE NthSmallest(commas, n) - 1
  IN  SubSeq(key, from, to)

SegmentStarts(b) ==
  {i \in DOMAIN b : ~IsSpace(b[i]) /\ (i = 1 \/ IsSpace(b[i - 1]))}

SegmentOf(b, n) ==
  LET from == NthSmallest(SegmentStarts(b), n)
      ends == {j \in from..Len(b) :
                 /\ \A m \in from..j : ~IsSpace(b[m])
                 /\ (j = Len(b) \/ IsSpace(b[j + 1]))}
  IN  SubSeq(b, from, CHOOSE j \in ends : TRUE)

TagLen(seg) ==
  CHOOSE n \in 0..Len(seg) :
    /\ \A i \in 1..n : IsWordChar(seg[i])
    /\ (n = Len(seg) \/ ~IsWordChar(seg[n + 1]))

ScopeSelector(hashId, priority) ==
  IF priority = "low"
  THEN <<":","w","h","e","r","e","(",".">> \o hashId \o <<")">>
  ELSE <<".">> \o hashId

RECURSIVE RestSegments(_, _)
RestSegments(b, n) ==
  IF n > Cardinality(SegmentStarts(b)) THEN <<>>
  ELSE <<" ">> \o SegmentOf(b, n) \o RestSegments(b, n + 1)

ExpectedBranch(b, hashId, priority) ==
  IF SegmentStarts(b) = {} THEN ScopeSelector(hashId, priority)
  ELSE LET first == SegmentOf(b, 1)
           tag   == TagLen(first)
       IN  SubSeq(first, 1, tag) \o ScopeSelector(hashId, priority)
             \o SubSeq(first, tag + 1, Len(first)) \o RestSegments(b, 2)

RECURSIVE ExpectedBranches(_, _, _, _)
ExpectedBranches(key, n, hashId, priority) ==
  IF n > BranchCount(key) THEN <<>>
  ELSE (IF n = 1 THEN <<>> ELSE <<",">>)
         \o ExpectedBranch(BranchOf(key, n), hashId, priority)
         \o ExpectedBranches(key, n + 1, hashId, priority)

\* C8: with an empty hashId injectSelectorHash returns the selector
\* unchanged; otherwise every comma-separated branch gets the scope selector
\* ('.hashId', or ':where(.hashId)' for priority 'low') in its first
\* white-space separated segment, right after the leading tag-name prefix
\* and before the rest of the segment, the other segments following in
\* order; 'div' gives 'div.abc', '.foo' gives '.abc.foo' and '.foo' with
\* 'low' gives ':where(.abc).foo'.
C8_InjectSelectorHash ==
  iOut.t = "selector" =>
    /\ iHashId = <<>> => iOut.s = iKey
    /\ iHashId # <<>> =>
         iOut.s = ExpectedBranches(iKey, 1, iHashId, iPriority)
    /\ (iKey = <<"d","i","v">> /\ iHashId = <<"a","b","c">>
          /\ iPriority = "high")
         => Str(iOut.s) = "div.abc"
    /\ (iKey = <<".","f","o","o">> /\ iHashId = <<"a","b","c">>
          /\ iPriority = "high")
         => Str(iOut.s) = ".abc.foo"
    /\ (iKey = <<".","f","o","o">> /\ iHashId = <<"a","b","c">>
          /\ iPriority = "low")
         => Str(iOut.s) = ":where(.abc).foo"

\* a selector with a tag-name prefix, a suffix and a second segment has
\* been injected with low priority
C8_Witness ==
  /\ iOut.t = "selector"
  /\ iKey = <<"d","i","v",".","f","o","o"," ",".","b","a","r">>
  /\ iHashId = <<"a","b","c">>
  /\ iPriority = "low"
  /\ Str(iOut.s) = "div:where(.abc).foo .bar"

\* ---- client mode as the hook decides it: the mock of the context
\* ---- overrides the environment outside production
ClientMode ==
  IF production \/ mock = "undefined" THEN isClientSide ELSE mock = "client"

CallCount(calls, key) == IF key \in DOMAIN calls THEN calls[key] ELSE 0

\* C1: in client mode a registration that finds no cache entry calls the
\* style function once and makes exactly one updateCSS call for its styleId;
\* a registration of a scope whose entry is resident (no teardown since it
\* was created) reuses the entry: the reference count goes up by one, the
\* style function is not called, no updateCSS call is made and the document
\* is not touched.
C1_OneInsertion ==
  [][ (lastOp'.op = "register" /\ ClientMode) =>
        LET key == StyleKey(lastOp'.info)
        IN  IF Resident(cache, key)
            THEN /\ lastOp'.hit
                 /\ styleFnCalls' = styleFnCalls
                 /\ updateCalls' = updateCalls
                 /\ document' = document
                 /\ EntryOf(cache', key).value = EntryOf(cache, key).value
                 /\ EntryOf(cache', key).times = EntryOf(cache, key).times + 1
            ELSE LET styleId == EntryOf(cache', key).value[3]
                 IN  /\ ~lastOp'.hit
                     /\ styleFnCalls' = styleFnCalls + 1
                     /\ CallCount(updateCalls', styleId)
                          = CallCount(updateCalls, styleId) + 1
                     /\ Cardinality({e \in document' : e.key = styleId}) = 1
                     /\ EntryOf(cache', key).times = 1 ]_vars

\* a scope registered twice in client mode: one updateCSS call, one element
C1_Witness ==
  /\ ClientMode
  /\ lastOp.op = "register" /\ lastOp.hit
  /\ LET entry == EntryOf(cache, StyleKey(lastOp.info))
     IN  /\ entry.times = 2
         /\ CallCount(updateCalls, entry.value[3]) = 1
         /\ Cardinality({e \in document : e.key = entry.value[3]}) = 1
         /\ styleFnCalls = 1

\* C2: when the last reference of a scope is released with autoClear, or
\* the entry is torn down by a forced refresh, the <style> element that was
\* in the document under the entry's styleId is gone afterwards, and the
\* keyframe-effect elements of that scope are still in the document,
\* untouched.
C2_TeardownKeepsEffects ==
  [][ LET torn == \/ /\ lastOp'.op = "release"
                     /\ lastOp'.evicted /\ lastOp'.autoClear
                  \/ lastOp'.op = "refresh"
      IN  torn =>
            LET old == EntryOf(cache, StyleKey(lastOp'.info))
                inserted == {e \in document : e.key = old.value[3]}
            IN  /\ \A e \in inserted : \A f \in document' : f.el # e.el
                /\ \A e \in document :
                     (\E k \in old.effectKeys : e.key = EffectKey(k))
                       => e \in document'
                /\ inserted # {} =>
                     \A k \in old.effectKeys :
                       HasStyle(document', EffectKey(k)) ]_vars

\* the last reference of a scope that uses a keyframe was released with
\* autoClear: its stylesheet is gone, the effect is in the document
C2_Witness ==
  /\ lastOp.op = "release" /\ lastOp.evicted /\ lastOp.autoClear
  /\ cache = <<>>
  /\ \E key \in DOMAIN updateCalls : ~HasStyle(document, key)
  /\ HasStyle(document, EffectKey("abc-fade"))

\* every name a Keyframes of the model can derive
EffectNames ==
  { getName(k, h) : k \in {KFade, KSpin, KOuter}, h \in HashIds }

\* C3: over registrations, releases and forced refreshes the global effect
\* registry never loses a name, every registered name has its effect
\* element in the document, and updateCSS is called at most once for the
\* effect of a derived keyframe name.
C3_EffectsOnce ==
  [][ /\ globalEffectStyleKeys \subseteq globalEffectStyleKeys'
      /\ \A name \in globalEffectStyleKeys' :
           HasStyle(document', EffectKey(name))
      /\ \A name \in EffectNames :
           CallCount(updateCalls', EffectKey(name)) <= 1 ]_vars

\* two scopes that use the same keyframe were registered in client mode
C3_Witness ==
  /\ ClientMode
  /\ Len(cache) = 2
  /\ \A i \in DOMAIN cache : "abc-fade" \in cache[i].effectKeys
  /\ styleFnCalls = 2
  /\ CallCount(updateCalls, EffectKey("abc-fade")) = 1
  /\ globalEffectStyleKeys = {"abc-fade"}

\* the tag of one cache entry, as the extraction is specified
StyleTag(entry) ==
  "<style data-token=\"" \o entry.value[2] \o "\" data-css-hash=\""
    \o entry.value[3] \o "\">" \o entry.value[1] \o "</style>"

UnderStyleNamespace(key) ==
  /\ Len(key) >= 6
  /\ <<key[1], key[2], key[3], key[4], key[5], key[6]>>
       = <<"s","t","y","l","e","%">>

\* the tags of the first n entries, in enumeration order
RECURSIVE TagsUpTo(_, _)
TagsUpTo(entries, n) ==
  IF n = 0 THEN ""
  ELSE TagsUpTo(entries, n - 1) \o
       (IF UnderStyleNamespace(entries[n].key)
        THEN StyleTag(entries[n]) ELSE "")

\* C4: extractStyle returns, in the cache's enumeration order, one
\* <style data-token="tokenKey" data-css-hash="styleId">cssText</style> tag
\* for every resident entry whose key starts with 'style%' and nothing for
\* the other entries.
C4_ExtractStyle ==
  lastOp.op = "extract" => lastOp.result = TagsUpTo(cache, Len(cache))

\* two scopes and an entry of another namespace are resident at extraction
C4_Witness ==
  /\ lastOp.op = "extract"
  /\ Len(cache) = 3
  /\ Cardinality({i \in DOMAIN cache : UnderStyleNamespace(cache[i].key)}) = 2
  /\ \E i, j \in DOMAIN cache :
       /\ i < j
       /\ UnderStyleNamespace(cache[i].key)
       /\ UnderStyleNamespace(cache[j].key)
       /\ cache[i].value[3] # cache[j].value[3]
       /\ lastOp.result = StyleTag(cache[i]) \o StyleTag(cache[j])

\* C10: the render function emits a <style> node carrying the cached token
\* key, style id and css text exactly when the registration ran in server
\* mode and defaultCache is set; otherwise it emits no style markup.
C10_RenderStyleNode ==
  lastOp.op = "render" =>
    LET value == EntryOf(cache, StyleKey(lastOp.info)).value
    IN  IF ~ClientMode /\ lastOp.defaultCache
        THEN lastOp.styleNode = [t |-> "style", token |-> value[2],
                                 mark |-> value[3], html |-> value[1]]
        ELSE lastOp.styleNode = [t |-> "Empty"]

\* a render with defaultCache after a registration without a document
C10_Witness ==
  /\ lastOp.op = "render"
  /\ ~isClientSide /\ mock = "undefined"
  /\ ~ClientMode /\ lastOp.defaultCache
  /\ lastOp.styleNode.t = "style"
  /\ lastOp.styleNode.token = "t1"
  /\ document = {}

\* ---- what a literal declaration is specified to emit
KebabName(key) ==
  CASE key = <<"c","o","l","o","r">> -> "color"
    [] key = <<"m","a","r","g","i","n">> -> "margin"
    [] key = <<"l","i","n","e","H","e","i","g","h","t">> -> "line-height"
    [] key = <<"z","I","n","d","e","x">> -> "z-index"
    [] key = <<"m","a","r","g","i","n","T","o","p">> -> "margin-top"
    [] key = <<"W","e","b","k","i","t","L","i","n","e","C","l","a","m","p">> -> "-webkit-line-clamp"
    [] key = <<"l","i","n","e","-","h","e","i","g","h","t">> -> "line-height"

UnitlessProperties == { <<"l","i","n","e","H","e","i","g","h","t">>, <<"z","I","n","d","e","x">>, <<"W","e","b","k","i","t","L","i","n","e","C","l","a","m","p">> }

LiteralOf(value) == IF value.t = "compound" THEN value.value ELSE value

ExpectedDeclaration(key, value) ==
  LET literal == LiteralOf(value)
  IN  KebabName(key) \o ":" \o
      (CASE literal.t = "number" ->
              ToString(literal.n) \o
              (IF key \notin UnitlessProperties /\ literal.n # 0
               THEN "px" ELSE "")
         [] literal.t = "string" -> literal.s
         [] literal.t = "null" -> "null") \o ";"

RECURSIVE ExpectedDeclarations(_)
ExpectedDeclarations(kv) ==
  IF kv = <<>> THEN ""
  ELSE ExpectedDeclaration(kv[1][1], kv[1][2])
         \o ExpectedDeclarations(Tail(kv))

LayerActive == pConfig.layer # <<>> /\ canLayer

\* C9: a literal declaration is emitted as '<kebab-case key>:<value>;', a
\* number getting the suffix 'px' exactly when the key is not on the
\* unitless list and the number is not 0; { color: 'red', margin: 4 } gives
\* 'color:red;margin:4px;' and { lineHeight: 4 } gives 'line-height:4;'.
C9_Declarations ==
  (pOut # NoResult /\ pStyle \in FlatStyles /\ ~LayerActive) =>
    /\ pOut.str = ExpectedDeclarations(pStyle.kv)
    /\ pStyle = Obj(<< <<<<"c","o","l","o","r">>, StrV("red")>>,
                       <<<<"m","a","r","g","i","n">>, NumV(4)>> >>)
         => pOut.str = "color:red;margin:4px;"
    /\ pStyle = Obj(<< <<<<"l","i","n","e","H","e","i","g","h","t">>, NumV(4)>> >>)
         => pOut.str = "line-height:4;"

\* { color: 'red', margin: 4 } has been compiled at root
C9_Witness ==
  /\ pOut # NoResult
  /\ pStyle = Obj(<< <<<<"c","o","l","o","r">>, StrV("red")>>, <<<<"m","a","r","g","i","n">>, NumV(4)>> >>)
  /\ ~LayerActive
  /\ pOut.str = "color:red;margin:4px;"

\* ---- the Keyframes a style description refers to outside of the style
\* ---- of another Keyframes
RECURSIVE ReferencedKeyframes(_)
ReferencedKeyframes(v) ==
  CASE v.t = "keyframes" -> {v}
    [] v.t = "array" ->
         UNION {ReferencedKeyframes(v.items[i]) : i \in DOMAIN v.items}
    [] v.t = "object" ->
         UNION {ReferencedKeyframes(v.kv[i][2]) : i \in DOMAIN v.kv}
    [] OTHER -> {}

TimesComputed(result, name) ==
  Cardinality({i \in DOMAIN result.computed : result.computed[i].name = name})

TimesComputedIn(result, frame, name) ==
  Cardinality({i \in DOMAIN result.computed :
                 /\ result.computed[i].name = name
                 /\ result.computed[i].frame = frame})

TimesInMap(result, name) ==
  Cardinality({i \in DOMAIN result.effectStyle :
                 result.effectStyle[i].name = name})

\* a frame reached through nested rules only
RuleFrame(frame) == \A i \in DOMAIN frame : frame[i][3] = "rule"

\* C5 as stated: within one top-level parseStyle call the @keyframes block
\* of a Keyframes is computed at most once, whatever the nesting depths of
\* its references; the returned effect map holds the block exactly once
\* under its derived name; and no key added to the effect map is lost as the
\* recursion through the nested rules unwinds.
C5_Original ==
  pOut # NoResult =>
    /\ \A i \in DOMAIN pOut.computed :
         TimesComputed(pOut, pOut.computed[i].name) <= 1
    /\ \A k \in ReferencedKeyframes(pStyle) :
         /\ TimesInMap(pOut, getName(k, pConfig.hashId)) = 1
         /\ TimesComputed(pOut, getName(k, pConfig.hashId)) >= 1
    /\ \A i \in DOMAIN pOut.effectStyle :
         TimesInMap(pOut, pOut.effectStyle[i].name) = 1
    /\ \A i \in DOMAIN pOut.computed :
         RuleFrame(pOut.computed[i].frame)
           => TimesInMap(pOut, pOut.computed[i].name) = 1

\* C5 amended: the @keyframes block of a Keyframes is computed at most once
\* in each parseStyle invocation (a reference in a nested rule computes it
\* again in the invocation of that rule); the returned effect map holds the
\* block of every Keyframes referred to outside the style of another
\* Keyframes exactly once under its derived name; and no key added to the
\* effect map is lost as the recursion through the nested rules unwinds.
C5_KeyframesOncePerFrame ==
  pOut # NoResult =>
    /\ \A i \in DOMAIN pOut.computed :
         TimesComputedIn(pOut, pOut.computed[i].frame,
                         pOut.computed[i].name) = 1
    /\ \A k \in ReferencedKeyframes(pStyle) :
         /\ TimesInMap(pOut, getName(k, pConfig.hashId)) = 1
         /\ TimesComputed(pOut, getName(k, pConfig.hashId)) >= 1
    /\ \A i \in DOMAIN pOut.effectStyle :
         TimesInMap(pOut, pOut.effectStyle[i].name) = 1
    /\ \A i \in DOMAIN pOut.computed :
         RuleFrame(pOut.computed[i].frame)
           => TimesInMap(pOut, pOut.computed[i].name) = 1

\* a Keyframes referred to at the root and again in a nested rule: computed
\* in both invocations, once in the returned map
C5_Witness ==
  /\ pOut # NoResult
  /\ pStyle = Obj(<< <<ANIMATION_NAME, KFade>>, <<<<".","a">>, UseFade>> >>)
  /\ pConfig.hashId = <<>>
  /\ TimesComputed(pOut, "fade") = 2
  /\ TimesInMap(pOut, "fade") = 1

\* C6 as stated: without a scope hash, whatever the layer, compiling
\* { '&': X } or { '': X } at root gives the text and the effect map of
\* compiling X at root, for X a CSSObject, a list or a Keyframes.
C6_Original ==
  (/\ pOut # NoResult /\ pOutKeyed # NoResult
   /\ pConfig.hashId = <<>>
   /\ pStyle.t \in {"object", "array", "keyframes"}) =>
    /\ pOutKeyed.str = pOut.str
    /\ pOutKeyed.effectStyle = pOut.effectStyle

\* C7 as stated: for a fixed salt two tokens give the same input to the
\* hash of token2key exactly when their content is the same.
C7_Original ==
  tOut # NoResult =>
    /\ tA = tB => tOut.inputA = tOut.inputB
    /\ tA # tB => tOut.inputA # tOut.inputB

\* ---- the keys parseStyle merged, by their place in the description
IsProperPrefix(a, b) == Len(a) < Len(b) /\ SubSeq(b, 1, Len(a)) = a

Contains(cs, sub) ==
  \E i \in 1..(Len(cs) - Len(sub) + 1) : SubSeq(cs, i, i + Len(sub) - 1) = sub

MergedOf(out) == {out.merged[i] : i \in DOMAIN out.merged}

\* the nested keys above e on its path from the root
AncestorsOf(out, e) == {a \in MergedOf(out) : IsProperPrefix(a.node, e.node)}

\* e lies in the style of a Keyframes
InKeyframesBody(e) == \E i \in DOMAIN e.node : e.node[i][3] = "keyframes"

\* the emitted key carries the scope hash
HashIn(e) == Contains(e.mergedKey, pConfig.hashId)

\* the emitted key is what the Selector Hash Injector makes of the key
HashInjected(e) ==
  /\ e.mergedKey = injectSelectorHash(e.key, pConfig.hashId,
                                      pConfig.hashPriority)
  /\ HashIn(e)

AtRuleAsWritten(key) == StartsWith(key, <<"@">>)

AtRuleTrimmed(key) == StartsWith(Trim(key), <<"@">>)

C11_OriginalOn(out) ==
  \A e \in MergedOf(out) :
    IF InKeyframesBody(e) THEN ~HashIn(e)
    ELSE IF \A a \in AncestorsOf(out, e) : AtRuleAsWritten(a.key)
    THEN IF AtRuleAsWritten(e.key)
         THEN e.mergedKey = e.key
         ELSE HashInjected(e)
    ELSE ~HashIn(e)

C11_InjectOnceOn(out) ==
  \A e \in MergedOf(out) :
    IF InKeyframesBody(e) THEN ~HashIn(e)
    ELSE IF \A a \in AncestorsOf(out, e) : AtRuleTrimmed(a.key)
    THEN IF AtRuleTrimmed(e.key)
         THEN e.mergedKey = Trim(e.key)
         ELSE HashInjected(e)
    ELSE ~HashIn(e)

\* C11 as stated: at root with a scope hash, on every path of nested keys the
\* hash is injected into exactly the first key that does not start with '@';
\* keys that start with '@' are emitted unmodified and pass the injection on;
\* keys below an injected key and keys in the style of a Keyframes carry no
\* hash.
C11_Original ==
  pConfig.hashId # <<>> =>
    /\ pOut # NoResult => C11_OriginalOn(pOut)
    /\ pOutKeyed # NoResult => C11_OriginalOn(pOutKeyed)

\* C11, amended: the same with every key trimmed first: a key is an at-rule
\* key when its trimmed text starts with '@', and such a key is emitted
\* trimmed; the hash is injected into exactly the first key on the path
\* whose trimmed text does not start with '@'.
C11_InjectOnce ==
  pConfig.hashId # <<>> =>
    /\ pOut # NoResult => C11_InjectOnceOn(pOut)
    /\ pOutKeyed # NoResult => C11_InjectOnceOn(pOutKeyed)

\* an at-rule in an at-rule in a rule: the third key on the path is the one
\* that carries the hash
C11_Witness ==
  /\ pOut # NoResult
  /\ pConfig.hashId # <<>>
  /\ pStyle = Obj(<< <<<<"@","m","e","d","i","a"," ","x">>,
                Obj(<< <<<<"@","s","u","p","p","o","r","t","s"," ","y">>, Obj(<< <<<<"a">>, Red>> >>)>> >>)>> >>)
  /\ \E e \in MergedOf(pOut) :
       /\ Len(e.node) = 3
       /\ HashInjected(e)
       /\ \A a \in AncestorsOf(pOut, e) : a.mergedKey = a.key /\ ~HashIn(a)
       /\ Cardinality(AncestorsOf(pOut, e)) = 2

====
